---- MODULE Spec2Model ----
(***************************************************************************)
(* A model of the RetroEmulator ROM launcher: the IGDB metadata client     *)
(* (igdb_client.cpp), the SDL list renderer and input handler (sdl_ui.cpp),*)
(* the emulator launcher (emulator_launcher.cpp) and the main loop         *)
(* (main.cpp, reproduced in README.md).                                    *)
(*                                                                         *)
(* A std::string is a sequence of one-character strings; positions are the *)
(* 0-based positions of C++.                                               *)
(***************************************************************************)
EXTENDS Integers, Sequences, FiniteSets, TLC

VARIABLES
    pc,             \* position of the running program / of the call under study
    filename,       \* argument of the normalizer / resolver call under study
    cleaned,        \* value returned by cleanGameName
    metadata,       \* value returned by extractMetadataFromFilename / fetchGameMetadata
    access_token,   \* IGDBClient::access_token
    remote,         \* what the remote catalog answers to the call under study
    requests,       \* network requests issued by the call under study, in order
    coverDownload,  \* the cover file at the destination path, and what the
                    \* downloadGameCover call of the call under study returned
    gameList,       \* SDLUI::gameList
    imageFiles,     \* the image files on disk: path -> how IMG_Load fares on it
    screen,         \* what the last renderGameList call drew, entry by entry
    loads,          \* path -> number of times its image was decoded and uploaded
    frames,         \* number of renderGameList calls that returned
    roms,           \* main: the file names scanForRoms returned
    selectedIndex,  \* SDLUI::selectedIndex
    gameSelected,   \* SDLUI::gameSelected
    lastPolled,     \* what handleInput polled last, and the cursor before it
    selection,      \* main: the value displayGameList returned last
    emulator,       \* EmulatorLauncher: initialized, lastError
    confirmed,      \* the cursor at every Return key handleInput took, in order
    launched,       \* the argument of every launchGame call, in order
    lastLaunch,     \* the last launchGame call: whether the file existed, whether
                    \* std::system was called, and the value returned
    opened,         \* the URL of every xdg-open command, in order
    saves,          \* SaveManager: the local and the cloud save file of the ROM
                    \* under study, before and after the syncGameSave call, and
                    \* what the call returned
    exitCode        \* the value main returned; -1 while it runs

clientVars == <<filename, cleaned, metadata, access_token, remote, requests, coverDownload>>

uiVars == <<gameList, imageFiles, screen, loads, frames>>

mainVars == <<roms, selectedIndex, gameSelected, lastPolled, selection, emulator,
              confirmed, launched, lastLaunch, saves, opened, exitCode>>

vars == <<pc, clientVars, uiVars, mainVars>>

\* the list UI before anything is loaded or drawn
UiIdle ==
    /\ gameList = <<>>
    /\ imageFiles = <<>>
    /\ screen = <<>>
    /\ loads = <<>>
    /\ frames = 0

\* no cover file on disk, no downloadGameCover call made
NoDownload == [file |-> "absent", returned |-> "none"]

\* no event taken yet
NoEvent == [type |-> "NONE", x |-> 0, y |-> 0, before |-> 0]

\* EmulatorLauncher::lastError before any error
NoError == [text |-> "", path |-> <<>>]

\* no launchGame call made
NoLaunch == [exists |-> FALSE, spawned |-> FALSE, returned |-> FALSE]

\* a file that does not exist
Absent == [exists |-> FALSE, data |-> <<>>]

\* no save file on either side, no syncGameSave call made
NoSaves ==
    [local |-> Absent, cloud |-> Absent,
     before |-> [local |-> Absent, cloud |-> Absent],
     choice |-> 0, returned |-> "none"]

\* the objects main constructs: SDLUI() and EmulatorLauncher()
MainIdle ==
    /\ roms = <<>>
    /\ selectedIndex = 0
    /\ gameSelected = FALSE
    /\ lastPolled = NoEvent
    /\ selection = 0
    /\ emulator = [initialized |-> FALSE, emulatorPath |-> <<>>, lastError |-> NoError]
    /\ confirmed = <<>>
    /\ launched = <<>>
    /\ lastLaunch = NoLaunch
    /\ saves = NoSaves
    /\ opened = <<>>
    /\ exitCode = -1

----------------------------------------------------------------------------
(* Bounds of the model *)

\* longest enumerated file name
MaxNameLen == 4

\* most words and spaces of an enumerated description
MaxWords == 4

\* most frames drawn in one run
MaxFrames == 2

\* most launchGame calls made on one launcher
MaxLaunches == 2

\* most bytes of an enumerated save file
MaxSaveLen == 2

----------------------------------------------------------------------------
(* std::string *)

npos == 2147483647

Min(a, b) == IF a < b THEN a ELSE b

Max(a, b) == IF a > b THEN a ELSE b

\* s.substr(pos, n), for pos <= s.size()
Substr(s, pos, n) == SubSeq(s, pos + 1, pos + Min(n, Len(s) - pos))

\* s.substr(pos)
SubstrFrom(s, pos) == SubSeq(s, pos + 1, Len(s))

\* s.find_last_of(chars, pos): the last position <= pos holding one of chars
FindLastOf(s, chars, pos) ==
    LET hits == {i \in 0..(Len(s) - 1) : i <= pos /\ s[i + 1] \in chars}
    IN  IF hits = {} THEN npos ELSE CHOOSE i \in hits : \A j \in hits : j <= i

\* s.find(sub, from): the first position >= from where sub occurs
Find(s, sub, from) ==
    LET hits == {i \in 0..(Len(s) - Len(sub)) :
                    i >= from /\ SubSeq(s, i + 1, i + Len(sub)) = sub}
    IN  IF hits = {} THEN npos ELSE CHOOSE i \in hits : \A j \in hits : i <= j

\* std::replace(s.begin(), s.end(), from, to)
ReplaceChar(s, from, to) == [i \in 1..Len(s) |-> IF s[i] = from THEN to ELSE s[i]]

\* whether sub occurs in s
Contains(s, sub) == Find(s, sub, 0) # npos

SeqsUpTo(S, n) == UNION {[1..k -> S] : k \in 0..n}

----------------------------------------------------------------------------
(* String literals of the program *)

NO_DESCRIPTION == <<"N", "o", " ", "d", "e", "s", "c", "r", "i", "p", "t", "i", "o", "n", " ", "f", "o", "u", "n", "d", " ", "i", "n", " ", "I", "G", "D", "B", " ", "d", "a", "t", "a", "b", "a", "s", "e">>

NOT_FOUND == <<"N", "o", "t", " ", "F", "o", "u", "n", "d">>

NOT_FOUND_PNG == <<".", ".", "/", "a", "s", "s", "e", "t", "s", "/", "n", "o", "t", "_", "f", "o", "u", "n", "d", ".", "p", "n", "g">>

UNKNOWN == <<"U", "n", "k", "n", "o", "w", "n">>

CLASSIC_NES_GAME == <<"C", "l", "a", "s", "s", "i", "c", " ", "N", "E", "S", " ", "g", "a", "m", "e">>

IMAGES_DIR == <<"i", "m", "a", "g", "e", "s", "/">>

DOT_PNG == <<".", "p", "n", "g">>

HTTPS == <<"h", "t", "t", "p", "s", ":">>

\* the file name and title of the end-to-end example
SUPER_MARIO_FILE == <<"s", "u", "p", "e", "r", "_", "m", "a", "r", "i", "o", "_", "b", "r", "o", "s", "_", "(", "U", ")", ".", "n", "e", "s">>

SUPER_MARIO_TITLE == <<"s", "u", "p", "e", "r", " ", "m", "a", "r", "i", "o", " ", "b", "r", "o", "s">>

----------------------------------------------------------------------------
(* Filename Normalizer *)

\* IGDBClient::cleanGameName with the replacement done after the truncation
cleanGameName_TruncateFirst(fname) ==
    LET name == Substr(fname, 0, FindLastOf(fname, {"."}, npos))
        pos  == Find(name, <<" ", "(">>, 0)
        cut  == IF pos # npos THEN Substr(name, 0, pos) ELSE name
    IN  ReplaceChar(cut, "_", " ")

\* IGDBClient::cleanGameName
cleanGameName(fname) ==
    LET name     == Substr(fname, 0, FindLastOf(fname, {"."}, npos))
        replaced == ReplaceChar(name, "_", " ")
        pos      == Find(replaced, <<" ", "(">>, 0)
    IN  IF pos # npos THEN Substr(replaced, 0, pos) ELSE replaced

\* the clean name computed by extractMetadataFromFilename, with the
\* replacement done after the truncation
extractCleanName_TruncateFirst(fname) ==
    LET dotPos == FindLastOf(fname, {"."}, npos)
        base   == IF dotPos # npos THEN Substr(fname, 0, dotPos) ELSE fname
        pos    == Find(base, <<" ", "(">>, 0)
        cut    == IF pos # npos THEN Substr(base, 0, pos) ELSE base
    IN  ReplaceChar(cut, "_", " ")

\* the clean name computed by extractMetadataFromFilename
extractCleanName(fname) ==
    LET dotPos   == FindLastOf(fname, {"."}, npos)
        base     == IF dotPos # npos THEN Substr(fname, 0, dotPos) ELSE fname
        replaced == ReplaceChar(base, "_", " ")
        pos      == Find(replaced, <<" ", "(">>, 0)
    IN  IF pos # npos THEN Substr(replaced, 0, pos) ELSE replaced

\* IGDBClient::extractMetadataFromFilename
extractMetadataFromFilename(fname) ==
    [filename    |-> fname,
     title       |-> extractCleanName(fname),
     description |-> NO_DESCRIPTION,
     releaseYear |-> NOT_FOUND,
     publisher   |-> NOT_FOUND,
     genre       |-> NOT_FOUND,
     imagePath   |-> NOT_FOUND_PNG,
     igdbUrl     |-> <<>>]

\* a default-constructed GameMetadata
EmptyMetadata ==
    [filename    |-> <<>>,
     title       |-> <<>>,
     description |-> <<>>,
     releaseYear |-> <<>>,
     publisher   |-> <<>>,
     genre       |-> <<>>,
     imagePath   |-> <<>>,
     igdbUrl     |-> <<>>]

----------------------------------------------------------------------------
(* JSON values of the catalog's responses (nlohmann::json)                 *)
(*   t = "absent": the key is missing; "string"; "number";                 *)
(*   "other": present with any other type (null, bool, object, array)      *)

JAbsent == [t |-> "absent", s |-> <<>>, n |-> 0]

JOther == [t |-> "other", s |-> <<>>, n |-> 0]

JString(str) == [t |-> "string", s |-> str, n |-> 0]

JNumber(k) == [t |-> "number", s |-> <<>>, n |-> k]

\* basic_json::value(key, default) asked for a std::string: the default when
\* the key is absent, the string when it holds one, type_error otherwise
ValueThrows(j) == j.t \notin {"absent", "string"}

ValueOr(j, default) == IF j.t = "string" THEN j.s ELSE default

\* std::to_string of a non-negative int
RECURSIVE to_string(_)
to_string(k) ==
    LET digit == <<"0", "1", "2", "3", "4", "5", "6", "7", "8", "9">>[(k % 10) + 1]
    IN  IF k < 10 THEN <<digit>> ELSE Append(to_string(k \div 10), digit)

\* tm_year + 1900 of std::localtime(&t), in a zone without offset
\* (days since 1970-01-01 to the civil year)
YearOfTimestamp(t) ==
    LET z   == (t \div 86400) + 719468
        era == z \div 146097
        doe == z - era * 146097
        yoe == (doe - doe \div 1460 + doe \div 36524 - doe \div 146096) \div 365
        doy == doe - (365 * yoe + yoe \div 4 - yoe \div 100)
        mp  == (5 * doy + 2) \div 153
        m   == IF mp < 10 THEN mp + 3 ELSE mp - 9
    IN  yoe + era * 400 + (IF m <= 2 THEN 1 ELSE 0)

----------------------------------------------------------------------------
(* Remote Catalog Client and Metadata Resolver *)

\* the clean name computed by fetchGameMetadata for the search query
fetchCleanName(game_name) ==
    LET dotPos == FindLastOf(game_name, {"."}, npos)
        base   == IF dotPos # npos THEN Substr(game_name, 0, dotPos) ELSE game_name
        pos    == Find(base, <<" ", "(">>, 0)
        cut    == IF pos # npos THEN Substr(base, 0, pos) ELSE base
    IN  ReplaceChar(cut, "_", " ")

\* the quote-escaping loop of fetchGameMetadata, from position pos on
RECURSIVE EscapeFrom(_, _)
EscapeFrom(str, pos) ==
    LET at == Find(str, <<"\"">>, pos)
    IN  IF at = npos
        THEN str
        ELSE EscapeFrom(SubSeq(str, 1, at) \o <<"\\", "\"">> \o SubstrFrom(str, at + 1),
                        at + 2)

EscapeQuotes(str) == EscapeFrom(str, 0)

\* IGDBClient::downloadGameCover, by the outcome of the transfer and of the
\* file system: true only for a completed, verified download; the
\* std::filesystem calls of the verification may throw
downloadGameCover(url, outcome) ==
    IF url = <<>> THEN [ok |-> FALSE, threw |-> FALSE, sent |-> FALSE]
    ELSE [ok |-> outcome = "ok", threw |-> outcome \in {"fsError", "emptyFsError"},
          sent |-> TRUE]

\* the destination file after a call that leaves the empty file of an empty
\* transfer in place
CoverFileAfter_KeepEmpty(before, url, outcome) ==
    IF url = <<>> \/ outcome \in {"transferFailed", "openFailed"} THEN before
    ELSE IF outcome \in {"emptyBody", "emptyFsError"} THEN "empty"
    ELSE "data"

\* IGDBClient::downloadGameCover: the file at output_path after the call,
\* "absent", "empty" or "data", given the file before it
\*   "transferFailed": curl error, nothing written
\*   "openFailed": the body arrived but the output file cannot be opened
\*   "ok": a body with data is written and verified
\*   "emptyBody": an empty body is written, found empty and removed
\*   "fsError": a body with data is written, a std::filesystem call throws
\*   "emptyFsError": an empty body is written, a std::filesystem call throws
CoverFileAfter(before, url, outcome) ==
    IF url = <<>> \/ outcome \in {"transferFailed", "openFailed"} THEN before
    ELSE IF outcome = "emptyBody" THEN "absent"
    ELSE IF outcome = "emptyFsError" THEN "empty"
    ELSE "data"

\* what the caller of downloadGameCover sees: "true", "false", or "threw"
DownloadReturned(url, outcome) ==
    IF downloadGameCover(url, outcome).threw THEN "threw"
    ELSE IF downloadGameCover(url, outcome).ok THEN "true" ELSE "false"

\* the name of the first element of items only, else "Unknown"
FirstNamed_HeadOnly(items) ==
    IF items # <<>> /\ Head(items).t = "string" THEN Head(items).s ELSE UNKNOWN

\* the first element of items that carries a name, else "Unknown"
RECURSIVE FirstNamed(_)
FirstNamed(items) ==
    IF items = <<>> THEN UNKNOWN
    ELSE IF Head(items).t = "string" THEN Head(items).s
    ELSE FirstNamed(Tail(items))

\* both catch handlers at the end of fetchGameMetadata, handing back all
\* that was mapped before the exception
CatchHandler_KeepPartial(game_name, partial) == partial

\* both catch handlers at the end of fetchGameMetadata
CatchHandler(game_name, partial) == extractMetadataFromFilename(game_name)

\* the mapping of the detail record json[0] to a GameMetadata
\* (fetchGameMetadata, from "const auto& game = json[0]" to the end of try)
MapDetailRecord(game_name, clean_name, game, dl) ==
    LET m0 == [EmptyMetadata EXCEPT !.filename = game_name]
        Threw(m) == [threw |-> TRUE, md |-> m, reqs |-> <<>>]
    IN
    IF game.t # "object" \/ ValueThrows(game.name) THEN Threw(m0)
    ELSE
    LET m1 == [m0 EXCEPT !.title = ValueOr(game.name, clean_name)] IN
    IF ValueThrows(game.summary) THEN Threw(m1)
    ELSE
    LET m2 == [m1 EXCEPT !.description = ValueOr(game.summary, CLASSIC_NES_GAME),
                         !.releaseYear = UNKNOWN,
                         !.publisher   = UNKNOWN,
                         !.genre       = UNKNOWN] IN
    IF ValueThrows(game.url) THEN Threw(m2)
    ELSE
    LET m3 == [m2 EXCEPT !.igdbUrl = ValueOr(game.url, <<>>)]
        m4 == IF game.first_release_date.t = "number"
              THEN [m3 EXCEPT !.releaseYear =
                                 to_string(YearOfTimestamp(game.first_release_date.n))]
              ELSE m3
        m5 == IF game.involved_companies.t = "array"
              THEN [m4 EXCEPT !.publisher = FirstNamed(game.involved_companies.items)]
              ELSE m4
        m6 == IF game.genres.t = "array" /\ game.genres.items # <<>>
              THEN [m5 EXCEPT !.genre = FirstNamed(game.genres.items)]
              ELSE m5
        hasCover   == game.cover.t = "object" /\ game.cover.url.t = "string"
        cover_url  == HTTPS \o game.cover.url.s
        image_path == IMAGES_DIR \o clean_name \o DOT_PNG
        got        == downloadGameCover(cover_url, dl)
        m7 == IF hasCover /\ got.ok THEN [m6 EXCEPT !.imagePath = image_path] ELSE m6
    IN  [threw |-> FALSE,
         md    |-> m7,
         reqs  |-> IF hasCover /\ got.sent
                   THEN <<[op |-> "cover", arg |-> cover_url, id |-> 0]>>
                   ELSE <<>>]

\* the access-token check of fetchGameMetadata, never taken
HasNoToken_Never(token) == FALSE

\* the access-token check at the head of fetchGameMetadata
HasNoToken(token) == token = <<>>

\* the requests of a call that sends the details request again
DetailsRequests_Retried(search, details) == <<search, details, details>>

\* the requests of a call that got as far as the details request
DetailsRequests(search, details) == <<search, details>>

\* a response body, by what fetchGameMetadata makes of it:
\*   "empty": transport failure or empty body (makeIGDBRequest returns "")
\*   "garbage": json::parse throws; "notArray"; "emptyArray"; "array"
\* IGDBClient::fetchGameMetadata: the record returned and the requests sent
fetchGameMetadata(game_name, token, rem) ==
    LET clean_name == fetchCleanName(game_name)
        m0         == [EmptyMetadata EXCEPT !.filename = game_name]
        search     == [op |-> "search", arg |-> EscapeQuotes(clean_name), id |-> 0]
        details    == [op |-> "details", arg |-> <<>>, id |-> rem.search.id.n]
        fallback   == extractMetadataFromFilename(game_name)
    IN
    IF HasNoToken(token) THEN [ret |-> fallback, reqs |-> <<>>]
    ELSE IF rem.search.kind = "empty" THEN [ret |-> fallback, reqs |-> <<search>>]
    ELSE IF rem.search.kind = "garbage"
         THEN [ret |-> CatchHandler(game_name, m0), reqs |-> <<search>>]
    ELSE IF rem.search.kind # "array" THEN [ret |-> fallback, reqs |-> <<search>>]
    ELSE IF rem.search.id.t = "absent" THEN [ret |-> fallback, reqs |-> <<search>>]
    ELSE IF rem.search.id.t # "number"
         THEN [ret |-> CatchHandler(game_name, m0), reqs |-> <<search>>]
    ELSE IF rem.details.kind = "empty" THEN [ret |-> fallback, reqs |-> DetailsRequests(search, details)]
    ELSE IF rem.details.kind = "garbage"
         THEN [ret |-> CatchHandler(game_name, m0), reqs |-> DetailsRequests(search, details)]
    ELSE IF rem.details.kind # "array" THEN [ret |-> fallback, reqs |-> DetailsRequests(search, details)]
    ELSE LET mapped == MapDetailRecord(game_name, clean_name, rem.details.game, rem.download)
         IN  IF mapped.threw
             THEN [ret |-> CatchHandler(game_name, mapped.md), reqs |-> DetailsRequests(search, details)]
             ELSE [ret |-> mapped.md, reqs |-> DetailsRequests(search, details) \o mapped.reqs]

\* a client that asks for a new token when a response is no JSON array
TokenAfterFetch_Refreshed(token, rem) ==
    IF token # <<>> /\ rem.search.kind = "notArray" THEN <<"n", "e", "w">> ELSE token

\* IGDBClient::access_token after a fetchGameMetadata call: the call and
\* makeIGDBRequest read the token and never assign it
TokenAfterFetch(token, rem) == token

\* IGDBClient::authenticate: the access token after the credential exchange
\*   "transport": curl error; "garbage": parse throws; "missing": no
\*   access_token key; "wrongType": the key holds no string (the conversion
\*   throws); "ok": the key holds the string tok
authenticate(outcome, tok) == IF outcome = "ok" THEN tok ELSE <<>>

----------------------------------------------------------------------------
(* The answers of the remote catalog that the resolver is run against *)

TOKEN == <<"t", "o", "k">>

AuthOutcomes == {"transport", "garbage", "missing", "wrongType", "ok"}

SimpleKinds == {"empty", "garbage", "notArray", "emptyArray"}

NoGame ==
    [t |-> "other", name |-> JAbsent, summary |-> JAbsent, url |-> JAbsent,
     first_release_date |-> JAbsent,
     involved_companies |-> [t |-> "absent", items |-> <<>>],
     genres |-> [t |-> "absent", items |-> <<>>],
     cover |-> [t |-> "absent", url |-> JAbsent]]

NameLists ==
    {[t |-> "absent", items |-> <<>>],
     [t |-> "other", items |-> <<>>],
     [t |-> "array", items |-> <<>>],
     [t |-> "array", items |-> <<JAbsent, JString(<<"K">>)>>],
     [t |-> "array", items |-> <<JString(<<"N">>), JString(<<"K">>)>>]}

Covers ==
    {[t |-> "absent", url |-> JAbsent],
     [t |-> "object", url |-> JOther],
     [t |-> "object", url |-> JString(<<"/", "/", "c">>)]}

Games ==
    {NoGame} \cup
    [t : {"object"},
     name : {JAbsent, JOther, JString(<<"Z">>)},
     summary : {JAbsent, JOther, JString(<<"a", " ", "a">>)},
     url : {JAbsent, JOther, JString(<<"u">>)},
     first_release_date : {JAbsent, JOther, JNumber(500000000)},
     involved_companies : NameLists,
     genres : NameLists,
     cover : Covers]

SearchResponses ==
    [kind : SimpleKinds, id : {JAbsent}]
    \cup [kind : {"array"}, id : {JAbsent, JOther, JNumber(7)}]

DetailResponses ==
    [kind : SimpleKinds, game : {NoGame}] \cup [kind : {"array"}, game : Games]

DownloadOutcomes ==
    {"ok", "transferFailed", "openFailed", "emptyBody", "fsError", "emptyFsError"}

\* the download is asked for only when the detail record carries a cover URL,
\* and the details only when the search gave an id
Remotes ==
    {r \in [search : SearchResponses, details : DetailResponses,
            download : DownloadOutcomes] :
        /\ (r.search.kind # "array" \/ r.search.id.t # "number")
              => r.details = [kind |-> "empty", game |-> NoGame]
        /\ (r.details.kind # "array" \/ r.details.game.cover.url.t # "string")
              => r.download = "ok"}

FetchFilenames ==
    {SUPER_MARIO_FILE,
     <<"a">>,
     <<"a", "\"", "\"", "b", ".", "n", "e", "s">>,
     <<"a", " ", "(", "v", "1", ".", "1", ")">>}

InitFetch ==
    /\ pc = "init"
    /\ filename = <<>>
    /\ cleaned = <<>>
    /\ metadata = EmptyMetadata
    /\ access_token = <<>>
    /\ remote = [auth |-> "none"]
    /\ requests = <<>>
    /\ coverDownload \in {[NoDownload EXCEPT !.file = f] : f \in {"absent", "data"}}
    /\ UiIdle
    /\ MainIdle

\* IGDBClient::init, which ends in authenticate()
ClientInit ==
    /\ pc = "init"
    /\ \E outcome \in AuthOutcomes, tok \in {<<>>, TOKEN} :
          /\ access_token' = authenticate(outcome, tok)
          /\ remote' = [auth |-> outcome]
    /\ pc' = "ready"
    /\ UNCHANGED <<filename, cleaned, metadata, requests, coverDownload>>
    /\ UNCHANGED <<uiVars, mainVars>>

\* one call of fetchGameMetadata
CallFetchGameMetadata ==
    /\ pc = "ready"
    /\ \E f \in FetchFilenames, r \in Remotes :
          LET out == fetchGameMetadata(f, access_token, r)
          IN  /\ filename' = f
              /\ remote' = [auth |-> remote.auth, search |-> r.search,
                            details |-> r.details, download |-> r.download]
              /\ metadata' = out.ret
              /\ requests' = out.reqs
              /\ coverDownload' =
                    IF \E k \in 1..Len(out.reqs) : out.reqs[k].op = "cover"
                    THEN [file |-> CoverFileAfter(coverDownload.file,
                                                  out.reqs[Len(out.reqs)].arg, r.download),
                          returned |-> DownloadReturned(out.reqs[Len(out.reqs)].arg, r.download)]
                    ELSE [coverDownload EXCEPT !.returned = "none"]
              /\ access_token' = TokenAfterFetch(access_token, r)
    /\ pc' = "fetched"
    /\ UNCHANGED cleaned
    /\ UNCHANGED <<uiVars, mainVars>>

NextFetch ==
    \/ ClientInit
    \/ CallFetchGameMetadata

SpecFetch == InitFetch /\ [][NextFetch]_vars

----------------------------------------------------------------------------
(* The normalizer applied to every short file name *)

NameChars == {"a", "_", " ", "(", "."}

Filenames == SeqsUpTo(NameChars, MaxNameLen) \cup {SUPER_MARIO_FILE}

InitNormalize ==
    /\ pc = "normalize"
    /\ filename \in Filenames
    /\ cleaned = <<>>
    /\ metadata = EmptyMetadata
    /\ access_token = <<>>
    /\ remote = [auth |-> "none"]
    /\ requests = <<>>
    /\ coverDownload = NoDownload
    /\ UiIdle
    /\ MainIdle

CallCleanGameName ==
    /\ pc = "normalize"
    /\ cleaned' = cleanGameName(filename)
    /\ pc' = "cleaned"
    /\ UNCHANGED <<filename, metadata, access_token, remote, requests, coverDownload>>
    /\ UNCHANGED <<uiVars, mainVars>>

CallExtractMetadataFromFilename ==
    /\ pc = "cleaned"
    /\ metadata' = extractMetadataFromFilename(filename)
    /\ pc' = "extracted"
    /\ UNCHANGED <<filename, cleaned, access_token, remote, requests, coverDownload>>
    /\ UNCHANGED <<uiVars, mainVars>>

NextNormalize ==
    \/ CallCleanGameName
    \/ CallExtractMetadataFromFilename

SpecNormalize == InitNormalize /\ [][NextNormalize]_vars

----------------------------------------------------------------------------
(* Properties of the Metadata Resolver and of the Filename Normalizer *)

\* the filename-only record as the specification words it, with the
\* normalized name taken from cleanGameName
ExpectedFallback(f) ==
    [filename    |-> f,
     title       |-> cleanGameName(f),
     description |-> NO_DESCRIPTION,
     releaseYear |-> NOT_FOUND,
     publisher   |-> NOT_FOUND,
     genre       |-> NOT_FOUND,
     imagePath   |-> NOT_FOUND_PNG,
     igdbUrl     |-> <<>>]

\* the remote outcomes in which the lookup fails before or while the detail
\* record is mapped, the cover handling left aside
FailsBeforeCover(r) ==
    \/ r.search.kind # "array"
    \/ r.search.id.t # "number"
    \/ r.details.kind # "array"
    \/ r.details.game.t # "object"
    \/ ValueThrows(r.details.game.name)
    \/ ValueThrows(r.details.game.summary)
    \/ ValueThrows(r.details.game.url)

\* the remote outcomes in which the cover handling raises an exception
CoverThrows(r) ==
    /\ ~FailsBeforeCover(r)
    /\ r.details.game.cover.t = "object"
    /\ r.details.game.cover.url.t = "string"
    /\ r.download = "fsError"

C2_NoTokenNoRequest ==
    (pc = "fetched" /\ access_token = <<>>)
        => /\ requests = <<>>
           /\ metadata = ExpectedFallback(filename)

\* no token, and a catalog that would have answered every request
C2_Witness ==
    /\ pc = "fetched"
    /\ access_token = <<>>
    /\ remote.auth = "transport"
    /\ remote.search.kind = "array" /\ remote.search.id.t = "number"
    /\ remote.details.kind = "array"
    /\ remote.details.game.t = "object"
    /\ remote.details.game.cover.url.t = "string"
    /\ requests = <<>>
    /\ metadata.releaseYear = NOT_FOUND

\* C3: the filename-only record holds the input file name, the normalized
\* name as title, "Not Found" for year, publisher and genre, an empty
\* igdbUrl and the placeholder image path; super_mario_bros_(U).nes gets
\* the title "super mario bros".
C3_FallbackRecordFields ==
    pc = "extracted"
        => /\ metadata.filename = filename
           /\ metadata.title = cleaned
           /\ metadata.releaseYear = <<"N", "o", "t", " ", "F", "o", "u", "n", "d">>
           /\ metadata.publisher = metadata.releaseYear
           /\ metadata.genre = metadata.releaseYear
           /\ metadata.igdbUrl = <<>>
           /\ metadata.imagePath = NOT_FOUND_PNG
           /\ (filename = SUPER_MARIO_FILE => metadata.title = SUPER_MARIO_TITLE)

C3_Witness ==
    /\ pc = "extracted"
    /\ filename = SUPER_MARIO_FILE
    /\ metadata.title = SUPER_MARIO_TITLE
    /\ metadata.imagePath = NOT_FOUND_PNG

\* C4: the normalized name of any input string holds no underscore and no
\* occurrence of a space followed by "(".
C4_NormalizedNameIsClean ==
    /\ pc \in {"cleaned", "extracted"}
          => /\ ~Contains(cleaned, <<"_">>)
             /\ ~Contains(cleaned, <<" ", "(">>)
    /\ pc = "extracted"
          => /\ ~Contains(metadata.title, <<"_">>)
             /\ ~Contains(metadata.title, <<" ", "(">>)

\* a name with an underscore before "(" and a dot: "a_(." becomes "a"
C4_Witness ==
    /\ pc = "extracted"
    /\ filename = <<"a", "_", "(", ".">>
    /\ cleaned = <<"a">>
    /\ metadata.title = <<"a">>

----------------------------------------------------------------------------
(* List Renderer: constants of class SDLUI *)

WINDOW_WIDTH == 800

GAME_ITEM_HEIGHT == 140

GAME_ITEM_PADDING == 20

DESCRIPTION_LINE_HEIGHT == 25

MAX_DESCRIPTION_LINES == 2

TEXT_START_X == 130

READ_MORE == <<" ", "R", "e", "a", "d", " ", "M", "o", "r", "e">>

----------------------------------------------------------------------------
(* Text measurement and image loading *)

\* the advance of one glyph of the 18 pt font, in pixels
GlyphWidth(c) == IF c = " " THEN 5 ELSE 10

\* the width TTF_SizeText reports for str
RECURSIVE SizeOfGlyphs(_, _)
SizeOfGlyphs(glyphs, str) ==
    IF glyphs = {} THEN 0
    ELSE LET c == CHOOSE g \in glyphs : TRUE
         IN  GlyphWidth(c) * Cardinality({i \in 1..Len(str) : str[i] = c})
                + SizeOfGlyphs(glyphs \ {c}, str)

SizeText(str) == SizeOfGlyphs({str[i] : i \in 1..Len(str)}, str)

\* how IMG_Load and SDL_CreateTextureFromSurface fare on a path:
\*   "direct": the path decodes; "assets": only "../assets/" + path decodes;
\*   "missing": neither decodes; "noTexture": it decodes but the upload fails
ImageKinds == {"direct", "assets", "missing", "noTexture"}

\* SDLUI::loadTextureFromFile: whether a texture is returned, and whether
\* an image was decoded and uploaded for it
loadTextureFromFile(path, files) ==
    LET surface == files[path] \in {"direct", "assets", "noTexture"}
    IN  [texture |-> surface /\ files[path] # "noTexture",
         decoded |-> surface]

----------------------------------------------------------------------------
(* Word wrap *)

\* the loop condition on the number of lines, letting one line more through
MoreLines_OneTooMany(linesRendered) == linesRendered <= MAX_DESCRIPTION_LINES

\* the loop condition on the number of lines of both description loops
MoreLines(linesRendered) == linesRendered < MAX_DESCRIPTION_LINES

\* where the next line ends: the last blank at or before the estimated
\* number of characters that fit, else that number
LineEnd(remainingText, lineWidth) ==
    LET textWidth    == SizeText(remainingText)
        length       == Len(remainingText)
        charsPerLine == Min(Max(1, (lineWidth * length) \div textWidth), length)
        found        == FindLastOf(remainingText, {" ", "\n"}, charsPerLine)
        lineEnd      == IF found = npos \/ found > charsPerLine THEN charsPerLine ELSE found
    IN  Min(lineEnd, length)

\* the loop that cuts words off the second line until "Read More" fits;
\* hung: an iteration leaves line as it was, so the loop never ends
RECURSIVE TrimForReadMore(_, _, _)
TrimForReadMore(line, lineWidth, readMoreWidth) ==
    IF SizeText(line) + readMoreWidth + 10 > lineWidth /\ line # <<>>
    THEN LET shorter == Substr(line, 0, FindLastOf(line, {" "}, npos))
         IN  IF shorter = line
             THEN [line |-> line, hung |-> TRUE]
             ELSE TrimForReadMore(shorter, lineWidth, readMoreWidth)
    ELSE [line |-> line, hung |-> FALSE]

\* whether the line being drawn gets the "Read More" suffix
IsReadMoreLine(linesRendered, remainingText) ==
    linesRendered = 1 /\ remainingText # <<>>

\* the while loop of renderWrappedText
\*   out.lines: the lines handed to renderText; out.readMore: "Read More" drawn;
\*   out.rest: the text never reached; out.dropped: characters cut off the
\*   second line; out.hung: the call never returns
RECURSIVE WrappedLoop(_, _, _, _)
WrappedLoop(remainingText, linesRendered, lineWidth, out) ==
    IF remainingText = <<>> \/ ~MoreLines(linesRendered)
    THEN [out EXCEPT !.rest = remainingText]
    ELSE IF SizeText(remainingText) <= 0
    THEN [out EXCEPT !.rest = remainingText]
    ELSE
    LET lineEnd == LineEnd(remainingText, lineWidth)
        line    == Substr(remainingText, 0, lineEnd)
        readMoreWidth == SizeText(READ_MORE)
        fits    == lineWidth - SizeText(line) > readMoreWidth + 10
        trimmed == TrimForReadMore(line, lineWidth, readMoreWidth)
        drawn   == IF IsReadMoreLine(linesRendered, remainingText) /\ ~fits
                   THEN trimmed.line ELSE line
        hangs   == IsReadMoreLine(linesRendered, remainingText) /\ ~fits /\ trimmed.hung
        next    == [out EXCEPT
                      !.lines    = Append(@, drawn),
                      !.readMore = @ \/ IsReadMoreLine(linesRendered, remainingText),
                      !.dropped  = @ + (Len(line) - Len(drawn))]
    IN  IF hangs THEN [out EXCEPT !.hung = TRUE, !.rest = remainingText]
        ELSE IF lineEnd >= Len(remainingText) THEN [next EXCEPT !.rest = <<>>]
        ELSE WrappedLoop(SubstrFrom(remainingText, lineEnd + 1), linesRendered + 1,
                         lineWidth, next)

NothingDrawn == [lines |-> <<>>, readMore |-> FALSE, rest |-> <<>>, dropped |-> 0, hung |-> FALSE]

\* SDLUI::renderWrappedText
renderWrappedText(text, lineWidth) ==
    IF text = <<>> THEN NothingDrawn ELSE WrappedLoop(text, 0, lineWidth, NothingDrawn)

\* the while loop of renderGameList for entries without igdbUrl
RECURSIVE PlainLoop(_, _, _, _)
PlainLoop(remainingText, linesRendered, lineWidth, out) ==
    IF remainingText = <<>> \/ ~MoreLines(linesRendered)
    THEN [out EXCEPT !.rest = remainingText]
    ELSE IF SizeText(remainingText) <= 0
    THEN [out EXCEPT !.rest = remainingText]
    ELSE
    LET lineEnd == LineEnd(remainingText, lineWidth)
        line    == Substr(remainingText, 0, lineEnd)
        next    == [out EXCEPT !.lines = Append(@, line)]
    IN  IF lineEnd >= Len(remainingText) THEN [next EXCEPT !.rest = <<>>]
        ELSE PlainLoop(SubstrFrom(remainingText, lineEnd + 1), linesRendered + 1,
                       lineWidth, next)

\* the body of the entry loop of renderGameList for one entry
RenderEntry(game, files) ==
    LET loaded == IF game.imagePath # <<>>
                  THEN loadTextureFromFile(game.imagePath, files)
                  ELSE [texture |-> FALSE, decoded |-> FALSE]
        textX  == IF loaded.texture THEN TEXT_START_X ELSE 20
        width  == WINDOW_WIDTH - (textX + 20)
        text   == IF game.igdbUrl # <<>>
                  THEN renderWrappedText(game.description, width)
                  ELSE PlainLoop(game.description, 0, width, NothingDrawn)
    IN  [cover |-> loaded.texture, decoded |-> loaded.decoded, textX |-> textX,
         lines |-> text.lines, readMore |-> text.readMore, rest |-> text.rest,
         dropped |-> text.dropped, hung |-> text.hung]

\* the entries drawn by one renderGameList call, up to the first that hangs
RECURSIVE RenderEntries(_, _, _)
RenderEntries(list, files, i) ==
    IF i > Len(list) THEN <<>>
    ELSE LET e == RenderEntry(list[i], files)
         IN  IF e.hung THEN <<e>> ELSE <<e>> \o RenderEntries(list, files, i + 1)

\* the number of entries of drawn, with path as image, that decoded an image
LoadsOf(path, list, drawn) ==
    Cardinality({i \in 1..Len(drawn) : list[i].imagePath = path /\ drawn[i].decoded})

----------------------------------------------------------------------------
(* The renderer run on every short description *)

WORD == [i \in 1..20 |-> "a"]

LONG_WORD == [i \in 1..70 |-> "b"]

Tokens == {<<" ">>, WORD, LONG_WORD}

RECURSIVE Concat(_)
Concat(parts) == IF parts = <<>> THEN <<>> ELSE Head(parts) \o Concat(Tail(parts))

Descriptions == {Concat(ts) : ts \in SeqsUpTo(Tokens, MaxWords)}

COVER_PATH == <<"i", "m", "a", "g", "e", "s", "/", "a", ".", "p", "n", "g">>

RenderedGames ==
    {[EmptyMetadata EXCEPT !.description = desc, !.igdbUrl = url, !.imagePath = path] :
        desc \in Descriptions, url \in {<<>>, <<"u">>}, path \in {<<>>, COVER_PATH}}

\* entries showing the same cover, with a description of one line, of two
\* lines that fit, and of more than two lines
TwinGames ==
    {[EmptyMetadata EXCEPT !.description = desc, !.igdbUrl = url, !.imagePath = COVER_PATH] :
        desc \in {WORD, WORD \o <<" ">> \o WORD, LONG_WORD \o LONG_WORD \o <<" ">> \o LONG_WORD},
        url \in {<<>>, <<"u">>}}

InitRender ==
    /\ pc = "listing"
    /\ filename = <<>>
    /\ cleaned = <<>>
    /\ metadata = EmptyMetadata
    /\ access_token = <<>>
    /\ remote = [auth |-> "none"]
    /\ requests = <<>>
    /\ coverDownload = NoDownload
    /\ gameList \in {<<g>> : g \in RenderedGames} \cup {<<g, h>> : g \in TwinGames, h \in TwinGames}
    /\ imageFiles \in [{COVER_PATH} -> ImageKinds]
    /\ screen = <<>>
    /\ loads = [p \in {COVER_PATH} |-> 0]
    /\ frames = 0
    /\ MainIdle

\* one call of renderGameList; control goes to next when it returns
RenderStep(next) ==
    /\ frames < MaxFrames
    /\ \E drawn \in {RenderEntries(gameList, imageFiles, 1)} :
         \E hung \in {drawn # <<>> /\ drawn[Len(drawn)].hung} :
           /\ screen' = drawn
           /\ loads' = [p \in DOMAIN loads |-> loads[p] + LoadsOf(p, gameList, drawn)]
           /\ frames' = IF hung THEN frames ELSE frames + 1
           /\ pc' = IF hung THEN "hung" ELSE next
    /\ UNCHANGED <<gameList, imageFiles>>
    /\ UNCHANGED <<clientVars, mainVars>>

\* renderGameList called frame after frame on one list
RenderGameList ==
    /\ pc = "listing"
    /\ RenderStep("listing")

NextRender ==
    \/ RenderGameList

SpecRender == InitRender /\ [][NextRender]_vars

----------------------------------------------------------------------------
(* Emulator launcher *)

NES_EXT == <<".", "n", "e", "s">>

NESTOPIA == <<"n", "e", "s", "t", "o", "p", "i", "a">>

\* the games directory next to the build directory
GAMES_DIR == <<".", ".", "/", "g", "a", "m", "e", "s">>

\* std::filesystem::path::filename
FilenameOf(path) ==
    LET slash == FindLastOf(path, {"/"}, npos)
    IN  IF slash = npos THEN path ELSE SubstrFrom(path, slash + 1)

\* std::filesystem::path::extension
Extension(path) ==
    LET name == FilenameOf(path)
        dot  == FindLastOf(name, {"."}, npos)
    IN  IF dot = npos \/ dot = 0 \/ name = <<".", ".">> THEN <<>> ELSE SubstrFrom(name, dot)

\* operator/ of std::filesystem::path on a directory and a file name
PathJoin(dir, name) == dir \o <<"/">> \o name

\* EmulatorLauncher::init
EmulatorLauncher_init(em, path) ==
    IF path = <<>>
    THEN [ok |-> FALSE,
          em |-> [em EXCEPT !.emulatorPath = path,
                            !.lastError = [text |-> "No emulator path specified", path |-> <<>>]]]
    ELSE [ok |-> TRUE, em |-> [em EXCEPT !.emulatorPath = path, !.initialized = TRUE]]

\* a validation that looks at the existence of the file only
validateRom_ExistsOnly(romPath, exists) ==
    IF ~exists
    THEN [ok |-> FALSE, error |-> [text |-> "ROM file does not exist: ", path |-> romPath]]
    ELSE [ok |-> TRUE, error |-> NoError]

\* EmulatorLauncher::validateRom; exists: whether the file is on disk
validateRom(romPath, exists) ==
    IF ~exists
    THEN [ok |-> FALSE, error |-> [text |-> "ROM file does not exist: ", path |-> romPath]]
    ELSE IF Extension(romPath) # NES_EXT
    THEN [ok |-> FALSE, error |-> [text |-> "Invalid ROM file type: ", path |-> romPath]]
    ELSE [ok |-> TRUE, error |-> NoError]

\* EmulatorLauncher::launchGame; result: what std::system returns
launchGame(em, romPath, exists, result) ==
    LET valid == validateRom(romPath, exists)
    IN  IF ~em.initialized
        THEN [ok |-> FALSE, spawned |-> FALSE,
              em |-> [em EXCEPT !.lastError = [text |-> "Emulator not initialized", path |-> <<>>]]]
        ELSE IF ~valid.ok
        THEN [ok |-> FALSE, spawned |-> FALSE, em |-> [em EXCEPT !.lastError = valid.error]]
        ELSE IF result # 0
        THEN [ok |-> FALSE, spawned |-> TRUE,
              em |-> [em EXCEPT !.lastError = [text |-> "Failed to launch emulator", path |-> <<>>]]]
        ELSE [ok |-> TRUE, spawned |-> TRUE, em |-> em]

----------------------------------------------------------------------------
(* Input handling of the list *)

\* the guard of the Up key, letting the cursor leave the list at the top
CursorAboveFirst_OrAtFirst(index) == index >= 0

\* the guard of the Up key
CursorAboveFirst(index) == index > 0

\* the guard of the Down key, letting the cursor leave the list at the end
CursorBelowLast_OrAtLast(index, size) == index < size

\* the guard of the Down key: size - 1 wraps around for an empty list and
\* converts to -1
CursorBelowLast(index, size) == index < (IF size = 0 THEN -1 ELSE size - 1)

\* whether (x, y) lies in the "Read More" region of the entry at position i
\* (from 0) of the list
OverLink(game, i, x, y) ==
    LET textX         == IF game.imagePath # <<>> THEN TEXT_START_X ELSE 20
        linkY         == GAME_ITEM_PADDING + i * (GAME_ITEM_HEIGHT + GAME_ITEM_PADDING)
                            + 50 + DESCRIPTION_LINE_HEIGHT
        textWidth     == SizeText(game.description)
        readMoreWidth == SizeText(READ_MORE)
    IN  /\ x >= textX + textWidth
        /\ x <= textX + textWidth + readMoreWidth + 5
        /\ y >= linkY
        /\ y <= linkY + DESCRIPTION_LINE_HEIGHT

\* a click test that finds no entry
ClickedLink_Never(list, x, y) == 0

\* the first entry (from 1) with an igdbUrl whose region holds (x, y), else 0
ClickedLink(list, x, y) ==
    LET hits == {i \in 1..Len(list) : list[i].igdbUrl # <<>> /\ OverLink(list[i], i - 1, x, y)}
    IN  IF hits = {} THEN 0 ELSE CHOOSE i \in hits : \A j \in hits : i <= j

\* one iteration of the event loop of handleInput on event e
\*   returns: handleInput returns instead of polling again
\*   url: the URL handed to xdg-open, if any
HandleEvent(e, index, selected, list) ==
    LET go == [selectedIndex |-> index, gameSelected |-> selected,
               returns |-> FALSE, url |-> <<>>]
    IN  CASE e.type = "QUIT"   -> [go EXCEPT !.selectedIndex = -1, !.returns = TRUE]
          [] e.type = "UP"     -> IF CursorAboveFirst(index)
                                  THEN [go EXCEPT !.selectedIndex = index - 1] ELSE go
          [] e.type = "DOWN"   -> IF CursorBelowLast(index, Len(list))
                                  THEN [go EXCEPT !.selectedIndex = index + 1] ELSE go
          [] e.type = "RETURN" -> [go EXCEPT !.gameSelected = TRUE, !.returns = TRUE]
          [] e.type = "ESCAPE" -> [go EXCEPT !.selectedIndex = -1, !.returns = TRUE]
          [] e.type = "CLICK"  -> LET i == ClickedLink(list, e.x, e.y)
                                  IN  IF i # 0
                                      THEN [go EXCEPT !.returns = TRUE, !.url = list[i].igdbUrl]
                                      ELSE go
          [] OTHER             -> go

\* the tests of displayGameList without the test for a cancel
AfterInput_IgnoreCancel(index, selected) ==
    IF selected THEN [returns |-> TRUE, value |-> index]
    ELSE [returns |-> FALSE, value |-> 0]

\* the tests of displayGameList after handleInput returned
\*   returns: displayGameList returns value; else the loop draws the next frame
AfterInput(index, selected) ==
    IF index = -1 THEN [returns |-> TRUE, value |-> -1]
    ELSE IF selected THEN [returns |-> TRUE, value |-> index]
    ELSE [returns |-> FALSE, value |-> 0]

\* a load that keeps the records of the previous load
gameList_clear_Kept(list) == list

\* SDLUI::loadGameMetadata: gameList.clear()
gameList_clear(list) == <<>>

\* SDLUI::loadGameMetadata: the resolver's answer for every game, in order
loadGameMetadata(games, token, rems) ==
    [i \in 1..Len(games) |-> fetchGameMetadata(games[i], token, rems[i])]

----------------------------------------------------------------------------
(* The environment of the main program *)

KeyTypes == {"QUIT", "UP", "DOWN", "RETURN", "ESCAPE", "KEY"}

\* a point outside every "Read More" region, and one inside the region of
\* the first entry when it has a cover
MousePoints == {<<0, 0>>, <<160, 100>>}

\* KEY: a key with no binding; CLICK: the left button; RCLICK: another button
Events ==
    [type : KeyTypes, x : {0}, y : {0}]
    \cup {[type |-> t, x |-> p[1], y |-> p[2]] : t \in {"MOTION", "CLICK"}, p \in MousePoints}
    \cup {[type |-> "RCLICK", x |-> 160, y |-> 100]}

FileNames ==
    {<<"a", ".", "n", "e", "s">>, <<"b", ".", "n", "e", "s">>, <<"c", ".", "t", "x", "t">>}

\* the games directory: whether it exists, and its entries
Directories == [exists : BOOLEAN, entries : SUBSET FileNames]

\* the orders in which a directory_iterator may yield the entries
Orderings(S) ==
    {q \in SeqsUpTo(S, Cardinality(S)) :
        Len(q) = Cardinality(S) /\ {q[i] : i \in 1..Len(q)} = S}

\* scanForRoms: the lists it may return on a directory
scanForRoms(dir) ==
    IF ~dir.exists THEN {<<>>}
    ELSE Orderings({n \in dir.entries : Extension(n) = NES_EXT})

\* the catalog knows the game and serves its cover
HitRemote ==
    [search   |-> [kind |-> "array", id |-> JNumber(7)],
     details  |-> [kind |-> "array",
                   game |-> [t |-> "object",
                             name |-> JString(<<"Z">>),
                             summary |-> JString(<<"a", " ", "a">>),
                             url |-> JString(<<"u">>),
                             first_release_date |-> JNumber(500000000),
                             involved_companies |-> [t |-> "array", items |-> <<JString(<<"N">>), JString(<<"K">>)>>],
                             genres |-> [t |-> "array", items |-> <<JString(<<"N">>), JString(<<"K">>)>>],
                             cover |-> [t |-> "object", url |-> JString(<<"/", "/", "c">>)]]],
     download |-> "ok"]

\* the catalog does not know the game
MissRemote ==
    [search   |-> [kind |-> "emptyArray", id |-> JAbsent],
     details  |-> [kind |-> "empty", game |-> NoGame],
     download |-> "ok"]

MainRemotes == {HitRemote, MissRemote}

\* every image path an entry of the main program's list can carry
MainImagePaths ==
    {fetchGameMetadata(n, t, r).ret.imagePath :
        n \in FileNames, t \in {<<>>, TOKEN}, r \in MainRemotes} \ {<<>>}

----------------------------------------------------------------------------
(* The main program *)

Init ==
    /\ pc = "start"
    /\ filename = <<>>
    /\ cleaned = <<>>
    /\ metadata = EmptyMetadata
    /\ access_token = <<>>
    /\ remote = [auth |-> "none"]
    /\ requests = <<>>
    /\ coverDownload = NoDownload
    /\ gameList = <<>>
    /\ imageFiles = [p \in MainImagePaths |-> "missing"]
    /\ screen = <<>>
    /\ loads = [p \in MainImagePaths |-> 0]
    /\ frames = 0
    /\ MainIdle

\* an error screen that leaves out the reason
ErrorScreen_NoReason(text, error) == <<[error |-> text, detail |-> NoError]>>

\* what showError draws
ErrorScreen(text, error) == <<[error |-> text, detail |-> error]>>

\* main: ui.init()
UiInit ==
    /\ pc = "start"
    /\ \E ok \in BOOLEAN :
          /\ pc' = IF ok THEN "igdb" ELSE "exit"
          /\ exitCode' = IF ok THEN exitCode ELSE 1
    /\ UNCHANGED <<clientVars, uiVars>>
    /\ UNCHANGED <<roms, selectedIndex, gameSelected, lastPolled, selection, emulator,
                   confirmed, launched, lastLaunch, saves, opened>>

\* main ending with 1 when the catalog client gets no token
InitIGDB_FatalOnFailure ==
    /\ pc = "igdb"
    /\ access_token' \in {authenticate(o, t) : o \in AuthOutcomes, t \in {<<>>, TOKEN}}
    /\ pc' = IF access_token' = <<>> THEN "exit" ELSE "emulator"
    /\ UNCHANGED <<filename, cleaned, metadata, remote, requests, coverDownload>>
    /\ UNCHANGED uiVars
    /\ exitCode' = IF access_token' = <<>> THEN 1 ELSE exitCode
    /\ UNCHANGED <<roms, selectedIndex, gameSelected, lastPolled, selection, emulator,
                   confirmed, launched, lastLaunch, saves, opened>>

\* main: ui.initIGDB(...), whose failure and whose exceptions are ignored
InitIGDB ==
    /\ pc = "igdb"
    /\ access_token' \in {authenticate(o, t) : o \in AuthOutcomes, t \in {<<>>, TOKEN}}
    /\ pc' = "emulator"
    /\ UNCHANGED <<filename, cleaned, metadata, remote, requests, coverDownload>>
    /\ UNCHANGED <<uiVars, mainVars>>

\* main: emulator.init("nestopia")
EmulatorInit ==
    /\ pc = "emulator"
    /\ \E r \in {EmulatorLauncher_init(emulator, NESTOPIA)} :
          /\ emulator' = r.em
          /\ pc' = IF r.ok THEN "scan" ELSE "errorEmulator"
          /\ screen' = IF r.ok THEN screen
                       ELSE ErrorScreen("Failed to initialize emulator: ", r.em.lastError)
    /\ UNCHANGED <<gameList, imageFiles, loads, frames>>
    /\ UNCHANGED clientVars
    /\ UNCHANGED <<roms, selectedIndex, gameSelected, lastPolled, selection,
                   confirmed, launched, lastLaunch, saves, opened, exitCode>>

\* main: scanForRoms(gamesDir) and the test for an empty list
ScanForRoms ==
    /\ pc = "scan"
    /\ \E dir \in Directories :
         \E found \in scanForRoms(dir) :
           /\ roms' = found
           /\ pc' = IF found = <<>> THEN "errorNoRoms" ELSE "list"
           /\ screen' = IF found = <<>>
                        THEN ErrorScreen("No ROM files found in games directory. Please add some .nes files.", NoError)
                        ELSE screen
    /\ UNCHANGED <<gameList, imageFiles, loads, frames>>
    /\ UNCHANGED clientVars
    /\ UNCHANGED <<selectedIndex, gameSelected, lastPolled, selection, emulator,
                   confirmed, launched, lastLaunch, saves, opened, exitCode>>

\* displayGameList up to its loop: loadGameMetadata(games), gameSelected = false
DisplayGameList ==
    /\ pc = "list"
    /\ \E rems \in [1..Len(roms) -> MainRemotes], kind \in {"direct", "missing"} :
         \E fetched \in {loadGameMetadata(roms, access_token, rems)} :
           /\ gameList' = gameList_clear(gameList)
                              \o [i \in 1..Len(roms) |-> fetched[i].ret]
           /\ requests' = Concat([i \in 1..Len(roms) |-> fetched[i].reqs])
           /\ imageFiles' = [p \in MainImagePaths |-> kind]
    /\ gameSelected' = FALSE
    /\ pc' = "render"
    /\ UNCHANGED <<filename, cleaned, metadata, access_token, remote, coverDownload>>
    /\ UNCHANGED <<screen, loads, frames>>
    /\ UNCHANGED <<roms, selectedIndex, lastPolled, selection, emulator,
                   confirmed, launched, lastLaunch, saves, opened, exitCode>>

\* displayGameList: renderGameList()
RenderFrame ==
    /\ pc = "render"
    /\ RenderStep("poll")

\* handleInput: SDL_PollEvent yields event e
PollEvent ==
    /\ pc = "poll"
    /\ \E e \in Events :
         \E h \in {HandleEvent(e, selectedIndex, gameSelected, gameList)} :
           \E after \in {AfterInput(h.selectedIndex, h.gameSelected)} :
             /\ selectedIndex' = h.selectedIndex
             /\ gameSelected' = h.gameSelected
             /\ lastPolled' = [type |-> e.type, x |-> e.x, y |-> e.y, before |-> selectedIndex]
             /\ confirmed' = IF e.type = "RETURN" THEN Append(confirmed, selectedIndex)
                             ELSE confirmed
             /\ opened' = IF h.url # <<>> THEN Append(opened, h.url) ELSE opened
             /\ pc' = IF ~h.returns THEN "poll"
                      ELSE IF after.returns THEN "returned" ELSE "render"
             /\ selection' = IF h.returns /\ after.returns THEN after.value ELSE selection
    /\ UNCHANGED <<clientVars, uiVars>>
    /\ UNCHANGED <<roms, emulator, launched, lastLaunch, saves, exitCode>>

\* handleInput: SDL_PollEvent yields nothing, so handleInput returns
PollEmpty ==
    /\ pc = "poll"
    /\ \E after \in {AfterInput(selectedIndex, gameSelected)} :
          /\ pc' = IF after.returns THEN "returned" ELSE "render"
          /\ selection' = IF after.returns THEN after.value ELSE selection
    /\ lastPolled' = [NoEvent EXCEPT !.before = selectedIndex]
    /\ UNCHANGED <<clientVars, uiVars>>
    /\ UNCHANGED <<roms, selectedIndex, gameSelected, emulator,
                   confirmed, launched, lastLaunch, saves, opened, exitCode>>

\* main: selection == -1, so the loop ends: ui.cleanup(), return 0
MainExit ==
    /\ pc = "returned"
    /\ selection = -1
    /\ pc' = "exit"
    /\ exitCode' = 0
    /\ UNCHANGED <<clientVars, uiVars>>
    /\ UNCHANGED <<roms, selectedIndex, gameSelected, lastPolled, selection, emulator,
                   confirmed, launched, lastLaunch, saves, opened>>

\* the path main launches for a selection, always that of the first game
RomPath_AlwaysFirst(dir, games, index) == PathJoin(dir, games[1])

\* main: gamesDir / roms[selection]
RomPath(dir, games, index) == PathJoin(dir, games[index + 1])

\* main: emulator.launchGame(romPath) and the test of its result
LaunchGame ==
    /\ pc = "returned"
    /\ selection # -1
    /\ \E exists \in BOOLEAN, result \in {0, 256} :
         \E r \in {launchGame(emulator, RomPath(GAMES_DIR, roms, selection), exists, result)} :
           /\ launched' = Append(launched, RomPath(GAMES_DIR, roms, selection))
           /\ lastLaunch' = [exists |-> exists, spawned |-> r.spawned, returned |-> r.ok]
           /\ emulator' = r.em
           /\ pc' = IF r.ok THEN "list" ELSE "errorLaunch"
           /\ screen' = IF r.ok THEN screen
                        ELSE ErrorScreen("Failed to launch game: ", r.em.lastError)
    /\ UNCHANGED <<gameList, imageFiles, loads, frames>>
    /\ UNCHANGED clientVars
    /\ UNCHANGED <<roms, selectedIndex, gameSelected, lastPolled, selection,
                   confirmed, opened, saves, exitCode>>

\* showError: SDL_PollEvent yields event e; Escape ends the wait, and main
\* goes on: back to the list after a failed launch, else return 1
ShowErrorPoll ==
    /\ pc \in {"errorEmulator", "errorNoRoms", "errorLaunch"}
    /\ \E e \in Events :
          /\ pc' = IF e.type # "ESCAPE" THEN pc
                   ELSE IF pc = "errorLaunch" THEN "list" ELSE "exit"
          /\ exitCode' = IF e.type = "ESCAPE" /\ pc # "errorLaunch" THEN 1 ELSE exitCode
    /\ UNCHANGED <<clientVars, uiVars>>
    /\ UNCHANGED <<roms, selectedIndex, gameSelected, lastPolled, selection, emulator,
                   confirmed, launched, lastLaunch, saves, opened>>

Next ==
    \/ UiInit
    \/ InitIGDB
    \/ EmulatorInit
    \/ ScanForRoms
    \/ DisplayGameList
    \/ RenderFrame
    \/ PollEvent
    \/ PollEmpty
    \/ MainExit
    \/ LaunchGame
    \/ ShowErrorPoll

Spec == Init /\ [][Next]_vars

\* main runs statement after statement: a call that has returned is followed
\* by the next statement
SpecLive == Spec /\ WF_vars(LaunchGame) /\ WF_vars(MainExit)

----------------------------------------------------------------------------
(* Properties of the list renderer *)

\* the text of entry e that no line shows: what lies beyond the last line
\* drawn, or was cut off the second line
Truncated(e) == e.rest # <<>> \/ e.dropped > 0

\* C5: across render frames an image path is decoded and uploaded at most
\* once; every later frame reuses the texture of the first load.
C5_NoSecondDecode ==
    \A p \in DOMAIN loads : loads[p] <= 1

\* C6: an entry whose drawing completes shows "Read More" exactly when its
\* description was truncated and its igdbUrl is not empty.
C6_ReadMoreIffTruncated ==
    \A i \in 1..Len(screen) :
        ~screen[i].hung
            => (screen[i].readMore <=> (Truncated(screen[i]) /\ gameList[i].igdbUrl # <<>>))

\* C7: with and without igdbUrl, an entry shows at most
\* MAX_DESCRIPTION_LINES lines of its description in a frame.
C7_AtMostMaxLines ==
    \A i \in 1..Len(screen) : Len(screen[i].lines) <= MAX_DESCRIPTION_LINES

\* a frame that cut off both an entry with and an entry without igdbUrl
\* after the second line
C7_Witness ==
    /\ Len(screen) = 2
    /\ gameList[1].igdbUrl # <<>>
    /\ gameList[2].igdbUrl = <<>>
    /\ \A i \in 1..2 : /\ Len(screen[i].lines) = MAX_DESCRIPTION_LINES
                       /\ screen[i].rest # <<>>

----------------------------------------------------------------------------
(* Properties of the main program *)

C9_CursorClamped ==
    /\ pc \in {"render", "poll"} => selectedIndex \in 0..(Len(gameList) - 1)
    /\ lastPolled.type = "UP"
          => selectedIndex = IF lastPolled.before = 0 THEN 0 ELSE lastPolled.before - 1
    /\ lastPolled.type = "DOWN"
          => selectedIndex = IF lastPolled.before = Len(gameList) - 1
                             THEN lastPolled.before ELSE lastPolled.before + 1

\* a Down key taken with the cursor on the last of two games
C9_Witness ==
    /\ pc = "poll"
    /\ Len(gameList) = 2
    /\ lastPolled.type = "DOWN"
    /\ lastPolled.before = 1
    /\ selectedIndex = 1

\* a confirm that main has not yet acted on
ConfirmPending == pc = "returned" /\ selection # -1

\* C10: every launchGame call follows a confirm of its own and is made with
\* gamesDir/roms[i], i being the cursor at that confirm; a confirm is
\* followed by one launchGame call and by no second one.
C10_OneLaunchPerConfirm ==
    /\ [](/\ Len(launched) = IF ConfirmPending THEN Len(confirmed) - 1 ELSE Len(confirmed)
          /\ \A k \in 1..Len(launched) :
                launched[k] = PathJoin(GAMES_DIR, roms[confirmed[k] + 1]))
    /\ \A n \in 1..MaxFrames :
          (ConfirmPending /\ Len(confirmed) = n) ~> (Len(launched) = n)
    /\ [][Len(launched') <= Len(launched) + 1]_vars

\* two confirms, of the second and then of the first game, each launched
C10_Witness ==
    /\ Len(launched) = 2
    /\ confirmed = <<1, 0>>
    /\ launched = <<PathJoin(GAMES_DIR, roms[2]), PathJoin(GAMES_DIR, roms[1])>>
    /\ roms[1] # roms[2]

\* handleInput took Escape or a close request last
Cancelled == lastPolled.type \in {"ESCAPE", "QUIT"}

\* C11: Escape or a close request taken from the list makes
\* displayGameList return -1; main then leaves its loop, calls launchGame
\* no more and returns 0.
C11_CancelExitsWithoutLaunch ==
    /\ [](Cancelled => /\ pc \in {"returned", "exit"}
                       /\ selection = -1
                       /\ (pc = "exit" => exitCode = 0))
    /\ [][Cancelled => launched' = launched]_vars
    /\ Cancelled ~> (pc = "exit" /\ exitCode = 0)

\* a close request after one game was launched: main returned 0 and made
\* no second launch
C11_Witness ==
    /\ pc = "exit"
    /\ exitCode = 0
    /\ lastPolled.type = "QUIT"
    /\ Len(confirmed) = 1
    /\ Len(launched) = 1

\* main is in its loop over displayGameList
InListLoop == pc \in {"list", "render", "poll", "returned", "errorLaunch", "hung"}

\* C12: main returns 1 exactly when the UI or the launcher failed to
\* initialize or the scan found no ROM; a failed catalog initialization
\* lets the run go on, and a run that reached the list loop returns 0.
C12_ExitCodes ==
    /\ [](IF pc = "exit" THEN exitCode \in {0, 1} ELSE exitCode = -1)
    /\ [](pc = "exit" => (exitCode = 1 <=> (~emulator.initialized \/ roms = <<>>)))
    /\ [](InListLoop => emulator.initialized /\ roms # <<>>)
    /\ [](pc = "exit" /\ roms # <<>> => exitCode = 0)
    /\ [][pc = "igdb" => pc' = "emulator" /\ exitCode' = exitCode]_vars

\* a run without catalog token that reached the list and returned 0
C12_Witness ==
    /\ pc = "exit"
    /\ exitCode = 0
    /\ access_token = <<>>
    /\ roms # <<>>
    /\ frames > 0

\* the reasons launchGame gives for a failure
LaunchErrors ==
    {"Emulator not initialized", "ROM file does not exist: ", "Invalid ROM file type: ",
     "Failed to launch emulator"}

\* C13: after a failed launchGame the screen shows "Failed to launch game: "
\* with the launcher's reason for this failure; the program waits there,
\* goes back to the list on Escape and nowhere else, and main does not end.
C13_LaunchFailureShownThenList ==
    /\ [](pc = "errorLaunch"
            => /\ screen = <<[error |-> "Failed to launch game: ", detail |-> emulator.lastError]>>
               /\ emulator.lastError.text \in LaunchErrors
               /\ emulator.lastError.path \in {<<>>, launched[Len(launched)]}
               /\ exitCode = -1)
    /\ [][pc = "returned" /\ pc' = "errorLaunch"
            => /\ emulator'.lastError.text = "ROM file does not exist: "
                    => emulator'.lastError.path = launched'[Len(launched')]
               /\ emulator'.lastError.text # "Emulator not initialized"]_vars
    /\ [][pc = "errorLaunch" => pc' \in {"errorLaunch", "list"} /\ exitCode' = -1]_vars
    /\ [][pc = "errorLaunch" /\ pc' = "list"
            => UNCHANGED <<selectedIndex, roms, launched>>]_vars

\* a launch failed for a missing ROM, the error was acknowledged, and the
\* list is drawn again
C13_Witness ==
    /\ pc = "poll"
    /\ frames = 2
    /\ Len(launched) = 1
    /\ emulator.lastError = [text |-> "ROM file does not exist: ", path |-> launched[1]]
    /\ exitCode = -1
    /\ ~gameSelected

\* C14: a left click that handleInput takes inside the link region of an
\* entry with igdbUrl hands that igdbUrl to xdg-open and leaves
\* selectedIndex and gameSelected as they were; displayGameList does not
\* return, it draws the next frame.
C14_ClickOpensUrlOnly ==
    [][\A i \in 1..Len(gameList) :
         (/\ pc = "poll"
          /\ lastPolled'.type = "CLICK"
          /\ gameList[i].igdbUrl # <<>>
          /\ OverLink(gameList[i], i - 1, lastPolled'.x, lastPolled'.y))
            => /\ opened' = Append(opened, gameList[i].igdbUrl)
               /\ selectedIndex' = selectedIndex
               /\ gameSelected' = gameSelected
               /\ pc' = "render"
               /\ UNCHANGED <<selection, confirmed, launched, gameList>>]_vars

\* the link of the first of two entries was clicked with the cursor on the
\* second
C14_Witness ==
    /\ pc = "render"
    /\ lastPolled.type = "CLICK"
    /\ lastPolled.before = 1
    /\ selectedIndex = 1
    /\ ~gameSelected
    /\ opened = <<gameList[1].igdbUrl>>
    /\ OverLink(gameList[1], 0, lastPolled.x, lastPolled.y)

----------------------------------------------------------------------------
(* Properties of the cover download *)

RequestOps == [k \in 1..Len(requests) |-> requests[k].op]

\* C16: a fetchGameMetadata call sends at most one search, one details and
\* one cover request, in this order and none twice; the details request
\* only after a search response with an id, the cover request only after
\* a details response with a cover URL.
C16_RequestsOnceInOrder ==
    pc = "fetched"
        => /\ RequestOps \in {<<>>, <<"search">>, <<"search", "details">>,
                              <<"search", "details", "cover">>}
           /\ Len(requests) >= 2
                 => /\ remote.search.kind = "array"
                    /\ remote.search.id.t = "number"
                    /\ requests[2].id = remote.search.id.n
           /\ Len(requests) = 3
                 => /\ remote.details.kind = "array"
                    /\ remote.details.game.cover.url.t = "string"
                    /\ requests[3].arg = HTTPS \o remote.details.game.cover.url.s

\* all three requests were sent and the download failed
C16_Witness ==
    /\ pc = "fetched"
    /\ RequestOps = <<"search", "details", "cover">>
    /\ remote.download = "transferFailed"
    /\ metadata.imagePath = <<>>

\* C17: the name in the search query of fetchGameMetadata is the
\* normalized name of the file name, quotes escaped: the title of the
\* fallback record, without any " (".
C17_SearchesNormalizedName ==
    pc = "fetched" /\ requests # <<>>
        => /\ requests[1].op = "search"
           /\ requests[1].arg = EscapeQuotes(extractMetadataFromFilename(filename).title)
           /\ ~Contains(requests[1].arg, <<" ", "(">>)

\* a call of fetchGameMetadata that mapped the detail record to the end
MappedFromDetails ==
    /\ pc = "fetched"
    /\ Len(requests) >= 2
    /\ remote.details.kind = "array"
    /\ remote.details.game.t = "object"
    /\ ~ValueThrows(remote.details.game.name)
    /\ ~ValueThrows(remote.details.game.summary)
    /\ ~ValueThrows(remote.details.game.url)

\* the positions of the elements of a listed value that carry a name
NamedIn(list) ==
    IF list.t = "array"
    THEN {k \in 1..Len(list.items) : list.items[k].t = "string"}
    ELSE {}

\* the name of the first listed element, "Unknown" when it carries none
FirstListedName(list) ==
    IF 1 \in NamedIn(list) THEN list.items[1].s ELSE UNKNOWN

\* the name of the first element that carries one, "Unknown" when none does
FirstNameListed(list) ==
    IF NamedIn(list) = {} THEN UNKNOWN
    ELSE list.items[CHOOSE k \in NamedIn(list) : \A j \in NamedIn(list) : k <= j].s

\* C18 as stated: publisher and genre of a mapped record are the name of the
\* first listed company and genre, "Unknown" when the list is absent, empty
\* or its first element carries no name.
C18_FirstListedOrUnknown ==
    MappedFromDetails
        => /\ metadata.publisher = FirstListedName(remote.details.game.involved_companies)
           /\ metadata.genre = FirstListedName(remote.details.game.genres)

\* C18: publisher and genre of a mapped record are the name of the first
\* listed company and genre that carries a name, "Unknown" when the list is
\* absent, not a list, empty, or none of its elements carries a name.
C18_FirstNamedOrUnknown ==
    MappedFromDetails
        => /\ metadata.publisher = FirstNameListed(remote.details.game.involved_companies)
           /\ metadata.genre = FirstNameListed(remote.details.game.genres)

C18_Witness ==
    /\ MappedFromDetails
    /\ NamedIn(remote.details.game.involved_companies) = {2}
    /\ NamedIn(remote.details.game.genres) = {1, 2}
    /\ metadata.publisher = <<"K">>
    /\ metadata.genre = <<"N">>

\* a mapped detail record that carries a cover URL
HasCoverUrl ==
    /\ MappedFromDetails
    /\ remote.details.game.cover.t = "object"
    /\ remote.details.game.cover.url.t = "string"

\* the record of the same call but for the cover, whatever the download did
SameButCover(name) ==
    /\ Cardinality({k \in 1..Len(requests) : requests[k].op = "cover"}) = 1
    /\ coverDownload.returned = "true"
          => metadata.imagePath = IMAGES_DIR \o name \o DOT_PNG
    /\ coverDownload.returned # "true" => metadata.imagePath = <<>>
    /\ [metadata EXCEPT !.imagePath = <<>>] =
          [MapDetailRecord(filename, fetchCleanName(filename),
                           remote.details.game, "ok").md EXCEPT !.imagePath = <<>>]

\* the cover of a mapped record goes to the path built from the name that
\* fetchGameMetadata searched for, set exactly when the download returned
\* true; a failed download leaves every other field as mapped
CoverPathFromSearchName ==
    HasCoverUrl => SameButCover(fetchCleanName(filename))

\* C19: with a cover URL one download is attempted to
\* "images/<normalized name>.png"; imagePath is that path exactly when the
\* download succeeded and empty otherwise, and a failed download leaves the
\* other fields of the mapped record alone.
C19_CoverPathAndFailure ==
    HasCoverUrl => SameButCover(extractCleanName(filename))

\* the list holds one record per file name of games, in the order of games
OnePerFilename(list, games) ==
    /\ Len(list) = Len(games)
    /\ \A i \in 1..Len(games) : list[i].filename = games[i]

\* C20: after loadGameMetadata(games) the list holds exactly one record per
\* file name, in input order, with gameList[i].filename = games[i]; the
\* records of the previous load are gone, so the list is never longer than
\* the list last loaded.
C20_OneRecordPerFilename ==
    /\ [][pc = "list" => OnePerFilename(gameList', roms)]_vars
    /\ [](pc \in {"render", "poll", "returned", "errorLaunch", "hung"}
             => OnePerFilename(gameList, roms))
    /\ [](Len(gameList) <= Len(roms))

\* the list of two games, loaded a second time after a launch
C20_Witness ==
    /\ pc = "render"
    /\ Len(launched) = 1
    /\ roms = << <<"b", ".", "n", "e", "s">>, <<"a", ".", "n", "e", "s">> >>
    /\ Len(gameList) = 2
    /\ gameList[1].filename = <<"b", ".", "n", "e", "s">>
    /\ gameList[2].filename = <<"a", ".", "n", "e", "s">>
    /\ gameList[1].title # gameList[2].title

----------------------------------------------------------------------------
(* The launcher on its own: init and launchGame called in any order *)

\* paths handed to launchGame: a ROM, a text file, a name without extension
\* and a ROM with an upper-case extension
LaunchPaths ==
    {PathJoin(GAMES_DIR, <<"a", ".", "n", "e", "s">>),
     PathJoin(GAMES_DIR, <<"c", ".", "t", "x", "t">>),
     PathJoin(GAMES_DIR, <<"n", "e", "s">>),
     PathJoin(GAMES_DIR, <<"a", ".", "N", "E", "S">>)}

\* EmulatorLauncher()
InitLaunch ==
    /\ pc = "launcher"
    /\ filename = <<>>
    /\ cleaned = <<>>
    /\ metadata = EmptyMetadata
    /\ access_token = <<>>
    /\ remote = [auth |-> "none"]
    /\ requests = <<>>
    /\ coverDownload = NoDownload
    /\ UiIdle
    /\ MainIdle

\* a call of EmulatorLauncher::init
LauncherInit ==
    /\ pc = "launcher"
    /\ \E path \in {<<>>, NESTOPIA} :
          emulator' = EmulatorLauncher_init(emulator, path).em
    /\ UNCHANGED <<pc, clientVars, uiVars>>
    /\ UNCHANGED <<roms, selectedIndex, gameSelected, lastPolled, selection,
                   confirmed, launched, lastLaunch, saves, opened, exitCode>>

\* a call of EmulatorLauncher::launchGame
CallLaunchGame ==
    /\ pc = "launcher"
    /\ Len(launched) < MaxLaunches
    /\ \E romPath \in LaunchPaths, exists \in BOOLEAN, result \in {0, 256} :
         \E r \in {launchGame(emulator, romPath, exists, result)} :
           /\ launched' = Append(launched, romPath)
           /\ lastLaunch' = [exists |-> exists, spawned |-> r.spawned, returned |-> r.ok]
           /\ emulator' = r.em
    /\ UNCHANGED <<pc, clientVars, uiVars>>
    /\ UNCHANGED <<roms, selectedIndex, gameSelected, lastPolled, selection,
                   confirmed, opened, saves, exitCode>>

NextLaunch ==
    \/ LauncherInit
    \/ CallLaunchGame

SpecLaunch == InitLaunch /\ [][NextLaunch]_vars

\* the reason launchGame gives for not spawning
RefusalOf(initialized, romPath, exists) ==
    IF ~initialized THEN [text |-> "Emulator not initialized", path |-> <<>>]
    ELSE IF ~exists THEN [text |-> "ROM file does not exist: ", path |-> romPath]
    ELSE [text |-> "Invalid ROM file type: ", path |-> romPath]

\* C21: launchGame calls std::system only when the launcher is initialized
\* and the ROM path exists and has the extension ".nes"; in every other case
\* it returns false, spawns nothing, and the last error is the reason.
C21_SpawnsOnlyValidRom ==
    [][Len(launched') > Len(launched)
         => LET romPath == launched'[Len(launched')]
                valid   == /\ emulator.initialized
                           /\ lastLaunch'.exists
                           /\ Extension(romPath) = NES_EXT
            IN  /\ lastLaunch'.spawned <=> valid
                /\ ~valid => /\ ~lastLaunch'.returned
                             /\ emulator'.lastError =
                                   RefusalOf(emulator.initialized, romPath, lastLaunch'.exists)
                             /\ emulator'.initialized = emulator.initialized]_vars

\* an initialized launcher refused an existing text file
C21_Witness ==
    /\ pc = "launcher"
    /\ emulator.initialized
    /\ launched = <<PathJoin(GAMES_DIR, <<"c", ".", "t", "x", "t">>)>>
    /\ lastLaunch = [exists |-> TRUE, spawned |-> FALSE, returned |-> FALSE]
    /\ emulator.lastError.text = "Invalid ROM file type: "

\* C22: the token is what the authentication request of the client
\* initialization gave; fetchGameMetadata sends no authentication request
\* and leaves the token alone, and a response that is no JSON array (the
\* catalog rejecting the token) gives the fallback record, with no further
\* request.
C22_TokenFromInitOnly ==
    /\ [](pc = "init" => access_token = <<>>)
    /\ [](pc # "init" => /\ remote.auth \in AuthOutcomes
                         /\ access_token \in {<<>>, TOKEN}
                         /\ remote.auth # "ok" => access_token = <<>>)
    /\ [][pc = "ready"
            => /\ access_token' = access_token
               /\ remote'.auth = remote.auth
               /\ \A k \in 1..Len(requests') :
                     requests'[k].op \in {"search", "details", "cover"}
               /\ (access_token # <<>> /\ remote'.search.kind = "notArray")
                     => /\ metadata' = extractMetadataFromFilename(filename')
                        /\ Len(requests') = 1
               /\ (Len(requests') >= 2 /\ remote'.details.kind = "notArray")
                     => /\ metadata' = extractMetadataFromFilename(filename')
                        /\ Len(requests') = 2]_vars

\* a call with a token whose search was answered with an error object
C22_Witness ==
    /\ pc = "fetched"
    /\ remote.auth = "ok"
    /\ access_token = TOKEN
    /\ remote.search.kind = "notArray"
    /\ Len(requests) = 1
    /\ metadata = extractMetadataFromFilename(filename)

----------------------------------------------------------------------------
(* Properties of the word wrap *)

\* the line width of the description of a drawn entry
LineWidthOf(e) == WINDOW_WIDTH - (e.textX + 20)

\* C23: each description line is the longest prefix of the remaining text
\* that fits the line width, cut at the last whitespace at or before the fit
\* point; so a description that fits the width entirely is drawn as one
\* line, unbroken.
C23_FittingTextIsOneLine ==
    \A i \in 1..Len(screen) :
        (/\ gameList[i].description # <<>>
         /\ SizeText(gameList[i].description) <= LineWidthOf(screen[i]))
            => screen[i].lines = <<gameList[i].description>>

----------------------------------------------------------------------------
(* The search query for names with quotes and backslashes *)

EscapeChars == {"a", "\"", "\\"}

EscapeNames == SeqsUpTo(EscapeChars, MaxNameLen)

InitEscape ==
    /\ pc = "escape"
    /\ filename \in EscapeNames
    /\ cleaned = <<>>
    /\ metadata = EmptyMetadata
    /\ access_token = TOKEN
    /\ remote = [auth |-> "ok"]
    /\ requests = <<>>
    /\ coverDownload = NoDownload
    /\ UiIdle
    /\ MainIdle

\* fetchGameMetadata(filename) with a token, the catalog knowing no such game
CallSearch ==
    /\ pc = "escape"
    /\ \E out \in {fetchGameMetadata(filename, access_token, MissRemote)} :
          /\ cleaned' = fetchCleanName(filename)
          /\ metadata' = out.ret
          /\ requests' = out.reqs
    /\ pc' = "searched"
    /\ UNCHANGED <<filename, access_token, remote, coverDownload>>
    /\ UNCHANGED <<uiVars, mainVars>>

NextEscape ==
    \/ CallSearch

SpecEscape == InitEscape /\ [][NextEscape]_vars

\* whether a quote of str ends a quoted string that str is the inside of,
\* read from position i on with the backslash escaping the character after it
RECURSIVE ClosesEarly(_, _)
ClosesEarly(str, i) ==
    IF i > Len(str) THEN FALSE
    ELSE IF str[i] = "\\" THEN ClosesEarly(str, i + 2)
    ELSE IF str[i] = "\"" THEN TRUE
    ELSE ClosesEarly(str, i + 1)

\* every quote of the name sent stands behind a backslash put there for it:
\* the name sent is the clean name with \" for every "
EveryQuoteEscaped ==
    pc = "searched"
        => /\ \A i \in 1..Len(requests[1].arg) :
                 requests[1].arg[i] = "\"" => (i > 1 /\ requests[1].arg[i - 1] = "\\")
           /\ Len(requests[1].arg) =
                 Len(cleaned) + Cardinality({i \in 1..Len(cleaned) : cleaned[i] = "\""})
           /\ [i \in 1..Len(cleaned) |->
                 requests[1].arg[i + Cardinality({j \in 1..i : cleaned[j] = "\""})]] = cleaned

\* C24: in the search query every double quote of the name is preceded by a
\* backslash, for any number of quotes, adjacent ones included, so that the
\* name cannot close the quoted search string early.
C24_NameCannotCloseString ==
    pc = "searched"
        => /\ \A i \in 1..Len(requests[1].arg) :
                 requests[1].arg[i] = "\"" => (i > 1 /\ requests[1].arg[i - 1] = "\\")
           /\ ~ClosesEarly(requests[1].arg, 1)

\* C25: renderWrappedText returns for every description and line width:
\* the line loop ends, and so does the loop that cuts words off the second
\* line to make room for "Read More", also when that line is one word
\* without blank, too wide for the suffix.
C25_RenderWrappedTextReturns ==
    /\ pc # "hung"
    /\ \A i \in 1..Len(screen) : ~screen[i].hung

\* whether lines are consecutive segments of text, each beginning where the
\* one before ended, with nothing but the one whitespace of the break between
RECURSIVE ConsecutiveSegments(_, _)
ConsecutiveSegments(lines, text) ==
    IF lines = <<>> THEN TRUE
    ELSE LET line == Head(lines)
         IN  /\ Len(line) <= Len(text)
             /\ SubSeq(text, 1, Len(line)) = line
             /\ Tail(lines) # <<>>
                   => /\ Len(line) < Len(text)
                      /\ text[Len(line) + 1] \in {" ", "\n"}
                      /\ ConsecutiveSegments(Tail(lines), SubstrFrom(text, Len(line) + 1))

\* C26: the lines drawn for a description are consecutive segments of it,
\* and the only character left out between one line and the next is the
\* whitespace of the break, also when the line is cut at the fit point for
\* want of a whitespace.
C26_NoCharacterLostBetweenLines ==
    \A i \in 1..Len(screen) :
        ConsecutiveSegments(screen[i].lines, gameList[i].description)

----------------------------------------------------------------------------
(* displayGameList called again and again, with any list *)

\* the lists a caller passes to displayGameList
ListsPassed ==
    {<< <<"a", ".", "n", "e", "s">> >>,
     << <<"a", ".", "n", "e", "s">>, <<"b", ".", "n", "e", "s">> >>}

\* SDLUI() constructed, the first list about to be passed
InitList ==
    /\ pc = "list"
    /\ filename = <<>>
    /\ cleaned = <<>>
    /\ metadata = EmptyMetadata
    /\ access_token \in {<<>>, TOKEN}
    /\ remote = [auth |-> "none"]
    /\ requests = <<>>
    /\ coverDownload = NoDownload
    /\ gameList = <<>>
    /\ imageFiles = [p \in MainImagePaths |-> "missing"]
    /\ screen = <<>>
    /\ loads = [p \in MainImagePaths |-> 0]
    /\ frames = 0
    /\ roms \in ListsPassed
    /\ selectedIndex = 0
    /\ gameSelected = FALSE
    /\ lastPolled = NoEvent
    /\ selection = 0
    /\ emulator = [initialized |-> FALSE, emulatorPath |-> <<>>, lastError |-> NoError]
    /\ confirmed = <<>>
    /\ launched = <<>>
    /\ lastLaunch = NoLaunch
    /\ saves = NoSaves
    /\ opened = <<>>
    /\ exitCode = -1

\* displayGameList has returned; the caller passes the next list
CallAgain ==
    /\ pc = "returned"
    /\ roms' \in ListsPassed
    /\ pc' = "list"
    /\ UNCHANGED <<clientVars, uiVars>>
    /\ UNCHANGED <<selectedIndex, gameSelected, lastPolled, selection, emulator,
                   confirmed, launched, lastLaunch, saves, opened, exitCode>>

NextList ==
    \/ DisplayGameList
    \/ RenderFrame
    \/ PollEvent
    \/ PollEmpty
    \/ CallAgain

SpecList == InitList /\ [][NextList]_vars

\* C27: every displayGameList call starts in the Listing state, the cursor
\* within [0, count - 1] of the list passed to it, whatever the calls before
\* it returned: no Selected outcome, no Cancelled outcome and no cursor of a
\* longer list carries over.
C27_CallStartsInListing ==
    [][pc = "list" => /\ gameSelected' = FALSE
                      /\ selectedIndex' \in 0..(Len(gameList') - 1)]_vars

\* C28: after any sequence of init and launchGame calls an initialized
\* launcher holds a non-empty emulator path, so that no command is built
\* with an empty emulator path, and a launcher whose init failed cannot
\* launch.
C28_InitializedHasPath ==
    /\ [](emulator.initialized => emulator.emulatorPath # <<>>)
    /\ [][(Len(launched') > Len(launched) /\ lastLaunch'.spawned)
             => emulator.emulatorPath # <<>>]_vars

----------------------------------------------------------------------------
(* The "Read More" region of handleInput against what the frame shows *)

\* the text x-offset handleInput takes for an entry
LinkTextX(game) == IF game.imagePath # <<>> THEN TEXT_START_X ELSE 20

\* C29: a left click opens the igdbUrl of an entry only if the current
\* frame shows "Read More" for it: the click and hover region exists for
\* exactly the entries the renderer drew "Read More" for, and is laid out
\* from the text x-offset the renderer used, cover shown or not.
C29_LinkRegionMatchesReadMore ==
    /\ [](pc = "poll"
            => \A i \in 1..Len(screen) :
                  /\ gameList[i].igdbUrl # <<>> <=> screen[i].readMore
                  /\ gameList[i].igdbUrl # <<>>
                        => LinkTextX(gameList[i]) = screen[i].textX)
    /\ [][opened' # opened
            => \E i \in 1..Len(screen) :
                  /\ screen[i].readMore
                  /\ opened' = Append(opened, gameList[i].igdbUrl)
                  /\ OverLink(gameList[i], i - 1, lastPolled'.x, lastPolled'.y)
                  /\ LinkTextX(gameList[i]) = screen[i].textX]_vars

----------------------------------------------------------------------------
(* SaveManager *)

\* a ^ b on the low n bits
RECURSIVE XorBits(_, _, _)
XorBits(a, b, n) ==
    IF n = 0 THEN 0
    ELSE (((a % 2) + (b % 2)) % 2) + 2 * XorBits(a \div 2, b \div 2, n - 1)

\* SaveManager::encrypt: every byte xor 0xAA
encrypt(data) == [i \in 1..Len(data) |-> XorBits(data[i], 170, 8)]

\* SaveManager::decrypt
decrypt(data) == encrypt(data)

\* SaveManager::uploadToCloud; writable: whether the cloud file can be opened
\* for writing
uploadToCloud(cloud, saveData, writable) ==
    IF ~writable THEN [ok |-> FALSE, cloud |-> cloud]
    ELSE [ok |-> TRUE, cloud |-> [exists |-> TRUE, data |-> encrypt(saveData)]]

\* SaveManager::downloadFromCloud
downloadFromCloud(cloud) == IF ~cloud.exists THEN <<>> ELSE decrypt(cloud.data)

\* SaveManager::handleSaveConflict; choice: what the user typed;
\* localWritable, cloudWritable: whether the file can be opened for writing
handleSaveConflict(local, cloud, choice, localWritable, cloudWritable) ==
    IF choice = 2
    THEN [local |-> IF localWritable
                    THEN [exists |-> TRUE, data |-> downloadFromCloud(cloud)]
                    ELSE local,
          cloud |-> cloud]
    ELSE [local |-> local,
          cloud |-> uploadToCloud(cloud, local.data, cloudWritable).cloud]

\* SaveManager::syncGameSave; online: what isOnline() finds
syncGameSave(local, cloud, online, choice, localWritable, cloudWritable) ==
    IF ~local.exists THEN [returned |-> FALSE, local |-> local, cloud |-> cloud]
    ELSE IF ~online THEN [returned |-> FALSE, local |-> local, cloud |-> cloud]
    ELSE IF cloud.exists
    THEN LET r == handleSaveConflict(local, cloud, choice, localWritable, cloudWritable)
         IN  [returned |-> TRUE, local |-> r.local, cloud |-> r.cloud]
    ELSE [returned |-> TRUE, local |-> local,
          cloud |-> uploadToCloud(cloud, local.data, cloudWritable).cloud]

\* bytes of a save file: zero, a letter, and the byte that encrypts to zero
SaveBytes == {0, 65, 170}

SaveFiles == {Absent} \cup [exists : {TRUE}, data : SeqsUpTo(SaveBytes, MaxSaveLen)]

\* a cloud file is one that an earlier upload wrote
CloudFiles == {Absent} \cup {[exists |-> TRUE, data |-> encrypt(f.data)] : f \in SaveFiles \ {Absent}}

InitSave ==
    /\ pc = "save"
    /\ filename = <<>>
    /\ cleaned = <<>>
    /\ metadata = EmptyMetadata
    /\ access_token = <<>>
    /\ remote = [auth |-> "none"]
    /\ requests = <<>>
    /\ coverDownload = NoDownload
    /\ UiIdle
    /\ roms = <<>>
    /\ selectedIndex = 0
    /\ gameSelected = FALSE
    /\ lastPolled = NoEvent
    /\ selection = 0
    /\ emulator = [initialized |-> FALSE, emulatorPath |-> <<>>, lastError |-> NoError]
    /\ confirmed = <<>>
    /\ launched = <<>>
    /\ lastLaunch = NoLaunch
    /\ opened = <<>>
    /\ exitCode = -1
    /\ \E l \in SaveFiles, c \in CloudFiles :
          saves = [NoSaves EXCEPT !.local = l, !.cloud = c]

\* one call of syncGameSave
CallSyncGameSave ==
    /\ pc = "save"
    /\ \E online \in BOOLEAN, choice \in {1, 2},
          localWritable \in BOOLEAN, cloudWritable \in BOOLEAN :
         \E r \in {syncGameSave(saves.local, saves.cloud, online, choice,
                                localWritable, cloudWritable)} :
           saves' = [local |-> r.local, cloud |-> r.cloud,
                     before |-> [local |-> saves.local, cloud |-> saves.cloud],
                     choice |-> choice, returned |-> IF r.returned THEN "true" ELSE "false"]
    /\ pc' = "synced"
    /\ UNCHANGED <<clientVars, uiVars>>
    /\ UNCHANGED <<roms, selectedIndex, gameSelected, lastPolled, selection, emulator,
                   confirmed, launched, lastLaunch, opened, exitCode>>

NextSave ==
    \/ CallSyncGameSave

SpecSave == InitSave /\ [][NextSave]_vars

\* C30: when syncGameSave returns true the cloud save decrypts to the
\* content of the local save, the content being that of the side the user
\* kept in a conflict and that of the local save otherwise; when it returns
\* false (no local save, or offline) neither file was modified.
C30_SyncedOrUntouched ==
    /\ saves.returned = "true"
          => /\ saves.local.exists /\ saves.cloud.exists
             /\ decrypt(saves.cloud.data) = saves.local.data
             /\ saves.local.data =
                   IF saves.before.cloud.exists /\ saves.choice = 2
                   THEN decrypt(saves.before.cloud.data)
                   ELSE saves.before.local.data
    /\ saves.returned = "false"
          => /\ saves.local = saves.before.local
             /\ saves.cloud = saves.before.cloud

====
